---- MODULE Spec2Model ----
(***************************************************************************)
(* Model of api/submit-inquiry.js: the Validator, the CORS helpers and the *)
(* request handler that relays a contact-form submission to the mail       *)
(* collaborator.                                                           *)
(*                                                                         *)
(* A JavaScript string is a sequence of one-character strings.  A          *)
(* JavaScript value is a record [t, v]: t is its type and v its content    *)
(* (the characters of a string, the entries of an array, <<>> otherwise).  *)
(***************************************************************************)
EXTENDS Integers, Sequences, FiniteSets

VARIABLES env, req, pc, locals, outbox, upstream, res

vars == <<env, req, pc, locals, outbox, upstream, res>>

----------------------------------------------------------------------------
(* JavaScript values *)

Str(s) == [t |-> "string", v |-> s]

Arr(items) == [t |-> "array", v |-> items]

Undefined == [t |-> "undefined", v |-> <<>>]

Null == [t |-> "null", v |-> <<>>]

Num7 == [t |-> "number", v |-> <<"7">>]

\* !x is false exactly for a truthy x: null, undefined and '' are falsy;
\* the only number of the model, 7, and every array are truthy.
Truthy(x) ==
    CASE x.t = "string" -> Len(x.v) > 0
      [] x.t = "array" -> TRUE
      [] x.t = "number" -> TRUE
      [] x.t = "object" -> TRUE
      [] OTHER -> FALSE

----------------------------------------------------------------------------
(* Strings *)

Rep(c, n) == [i \in 1..n |-> c]

\* The characters String.prototype.trim removes and \s matches.
WhiteSpace == {" ", "\t", "\n"}

RECURSIVE LeadingWs(_, _)
LeadingWs(s, i) ==
    IF i <= Len(s) /\ s[i] \in WhiteSpace THEN LeadingWs(s, i + 1) ELSE i - 1

RECURSIVE TrailingWs(_, _)
TrailingWs(s, i) ==
    IF i >= 1 /\ s[i] \in WhiteSpace THEN TrailingWs(s, i - 1) ELSE Len(s) - i

\* String.prototype.trim
Trim(s) ==
    LET lead == LeadingWs(s, 1)
    IN  IF lead = Len(s) THEN <<>>
        ELSE SubSeq(s, lead + 1, Len(s) - TrailingWs(s, Len(s)))

\* str.replace(/c/g, r): every occurrence of the character c becomes r.
RECURSIVE ReplaceAll(_, _, _)
ReplaceAll(s, c, r) ==
    IF Len(s) = 0 THEN <<>>
    ELSE IF Len(s) = 1 THEN (IF s[1] = c THEN r ELSE s)
    ELSE LET h == Len(s) \div 2
         IN  ReplaceAll(SubSeq(s, 1, h), c, r)
                 \o ReplaceAll(SubSeq(s, h + 1, Len(s)), c, r)

StartsWith(s, p) == Len(p) <= Len(s) /\ SubSeq(s, 1, Len(p)) = p

EndsWith(s, p) ==
    Len(p) <= Len(s) /\ SubSeq(s, Len(s) - Len(p) + 1, Len(s)) = p

\* str.split(c): the pieces between the occurrences of the character c.
RECURSIVE Split(_, _)
Split(s, c) ==
    LET at == {i \in 1..Len(s) : s[i] = c}
    IN  IF at = {} THEN <<s>>
        ELSE LET i == CHOOSE k \in at : \A m \in at : k <= m
             IN  <<SubSeq(s, 1, i - 1)>> \o Split(SubSeq(s, i + 1, Len(s)), c)

\* arr.join(sep)
RECURSIVE Join(_, _)
Join(items, sep) ==
    IF Len(items) = 0 THEN <<>>
    ELSE IF Len(items) = 1 THEN items[1]
    ELSE items[1] \o sep \o Join(Tail(items), sep)

----------------------------------------------------------------------------
(* Validator *)

AmpEntity == <<"&", "a", "m", "p", ";">>

LtEntity == <<"&", "l", "t", ";">>

GtEntity == <<"&", "g", "t", ";">>

QuotEntity == <<"&", "q", "u", "o", "t", ";">>

AposEntity == <<"&", "#", "x", "2", "7", ";">>

SlashEntity == <<"&", "#", "x", "2", "F", ";">>

\* A sanitizer that forgets the forward slash.
SanitizeHtmlNoSlash(x) ==
    IF x.t # "string" THEN <<>>
    ELSE ReplaceAll(ReplaceAll(ReplaceAll(ReplaceAll(ReplaceAll(x.v,
            "&", AmpEntity), "<", LtEntity), ">", GtEntity),
            "\"", QuotEntity), "'", AposEntity)

\* Validator.sanitizeHtml: the six replacements in the order of the code.
SanitizeHtml(x) ==
    IF x.t # "string" THEN <<>>
    ELSE ReplaceAll(ReplaceAll(ReplaceAll(ReplaceAll(ReplaceAll(ReplaceAll(x.v,
            "&", AmpEntity), "<", LtEntity), ">", GtEntity),
            "\"", QuotEntity), "'", AposEntity), "/", SlashEntity)

\* Validator.isValidEmail: /^[^\s@]+@[^\s@]+\.[^\s@]+$/ on a string.
IsValidEmail(s) ==
    \E i \in 1..Len(s), j \in 1..Len(s) :
        /\ s[i] = "@"
        /\ s[j] = "."
        /\ 1 < i /\ i + 1 < j /\ j < Len(s)
        /\ \A k \in (1..Len(s)) \ {i} : s[k] \notin WhiteSpace \cup {"@"}

\* Validator.isValidLength: the length of the string as given.
IsValidLength(x, min, max) ==
    IF x.t # "string" THEN FALSE
    ELSE Len(x.v) >= min /\ Len(x.v) <= max

NameMin == 1

NameMax == 100

CompanyMin == 1

CompanyMax == 200

EmailMin == 5

EmailMax == 255

CountryMin == 1

CountryMax == 100

MessageMin == 10

MessageMax == 5000

ValidateName(name) ==
    IF ~IsValidLength(name, NameMin, NameMax) THEN Null
    ELSE Str(SanitizeHtml(Str(Trim(name.v))))

ValidateCompany(company) ==
    IF ~IsValidLength(company, CompanyMin, CompanyMax) THEN Null
    ELSE Str(SanitizeHtml(Str(Trim(company.v))))

ValidateEmail(email) ==
    IF ~IsValidLength(email, EmailMin, EmailMax) THEN Null
    ELSE LET trimmed == Trim(email.v)
         IN  IF ~IsValidEmail(trimmed) THEN Null
             ELSE Str(SanitizeHtml(Str(trimmed)))

ValidateCountry(country) ==
    IF ~IsValidLength(country, CountryMin, CountryMax) THEN Null
    ELSE Str(SanitizeHtml(Str(Trim(country.v))))

ValidateMessage(message) ==
    IF ~IsValidLength(message, MessageMin, MessageMax) THEN Null
    ELSE Str(SanitizeHtml(Str(Trim(message.v))))

CBB60 == <<"C", "B", "B", "6", "0">>

CBB61 == <<"C", "B", "B", "6", "1">>

ValidProducts == {CBB60, CBB61}

\* validProducts.includes(p): only a string can equal a whitelisted code.
IsValidProduct(p) == p.t = "string" /\ p.v \in ValidProducts

\* arr.filter(keep).map(sanitizeHtml)
RECURSIVE FilterSanitize(_)
FilterSanitize(items) ==
    IF Len(items) = 0 THEN <<>>
    ELSE IF IsValidProduct(Head(items))
         THEN <<Str(SanitizeHtml(Head(items)))>> \o FilterSanitize(Tail(items))
         ELSE FilterSanitize(Tail(items))

\* A products validator that keeps every entry.
ValidateProductsKeepAll(products) ==
    IF products.t # "array" \/ Len(products.v) = 0 THEN Null
    ELSE Arr([i \in 1..Len(products.v) |-> Str(SanitizeHtml(products.v[i]))])

ValidateProducts(products) ==
    IF products.t # "array" \/ Len(products.v) = 0 THEN Null
    ELSE LET sanitized == FilterSanitize(products.v)
         IN  IF Len(sanitized) > 0 THEN Arr(sanitized) ELSE Null

----------------------------------------------------------------------------
(* CORS helpers *)

Star == <<"*">>

\* getAllowedOrigins: [] when ALLOWED_ORIGINS is unset or empty, else the
\* comma-separated entries, each trimmed.
GetAllowedOrigins(e) ==
    IF ~Truthy(e.ALLOWED_ORIGINS) THEN <<>>
    ELSE LET parts == Split(e.ALLOWED_ORIGINS.v, ",")
         IN  [i \in 1..Len(parts) |-> Trim(parts[i])]

\* An origin check that knows no wildcard entries.
IsOriginAllowedExactOnly(origin, allowedOrigins) ==
    IF Len(allowedOrigins) = 0 THEN TRUE
    ELSE \E i \in 1..Len(allowedOrigins) : origin = allowedOrigins[i]

\* isOriginAllowed, called with a non-empty origin string.
IsOriginAllowed(origin, allowedOrigins) ==
    IF Len(allowedOrigins) = 0 THEN TRUE
    ELSE \E i \in 1..Len(allowedOrigins) :
            LET allowed == allowedOrigins[i]
            IN  IF allowed = Star THEN TRUE
                ELSE IF EndsWith(allowed, Star)
                     THEN StartsWith(origin, SubSeq(allowed, 1, Len(allowed) - 1))
                     ELSE origin = allowed

----------------------------------------------------------------------------
(* Responses *)

AllowMethods == "GET,OPTIONS,PATCH,DELETE,POST,PUT"

AllowHeaders ==
    "X-CSRF-Token, X-Requested-With, Accept, Accept-Version, Content-Length, Content-MD5, Content-Type, Date, X-Api-Version"

\* No header set yet.
NoHeaders ==
    [allowOrigin |-> Undefined, allowCredentials |-> "unset",
     allowMethods |-> "unset", allowHeaders |-> "unset"]

\* The headers the handler sets once the configuration gate is passed.
CorsHeaders(origin, allowedOrigins) ==
    [allowOrigin |->
        IF Truthy(origin) /\ IsOriginAllowed(origin.v, allowedOrigins)
        THEN Str(origin.v)
        ELSE IF Len(allowedOrigins) = 0 THEN Str(Star) ELSE Undefined,
     allowCredentials |-> "true",
     allowMethods |-> AllowMethods,
     allowHeaders |-> AllowHeaders]

\* A JSON object body: keys names the properties it has.
Json(keys, success, error, message) ==
    [kind |-> "json", keys |-> keys, success |-> success, error |-> error,
     message |-> message]

\* res.end(): a response without a body.
EmptyBody ==
    [kind |-> "empty", keys |-> {}, success |-> FALSE, error |-> "",
     message |-> ""]

NoBody ==
    [kind |-> "none", keys |-> {}, success |-> FALSE, error |-> "",
     message |-> ""]

Failure(error) == Json({"success", "error"}, FALSE, error, "")

ConfigError == "Server configuration error"

MethodNotAllowed == "Method not allowed"

NameError == "Invalid name. Please provide a valid name (1-100 characters)."

CompanyError ==
    "Invalid company name. Please provide a valid company name (1-200 characters)."

EmailError == "Invalid email address. Please provide a valid email."

CountryError ==
    "Invalid country. Please provide a valid country (1-100 characters)."

ProductsError == "Please select at least one product (CBB60 or CBB61)."

MessageError ==
    "Invalid message. Please provide a message (10-5000 characters)."

GenericError ==
    "An error occurred while processing your request. Please try again later."

SuccessMessage == "Inquiry submitted successfully"

\* res.status(405).json({ error: 'Method not allowed' })
MethodNotAllowedBody == Json({"error"}, FALSE, MethodNotAllowed, "")

NoResponse == [count |-> 0, status |-> 0, body |-> NoBody, headers |-> NoHeaders]

Response(status, body, headers) ==
    [count |-> 1, status |-> status, body |-> body, headers |-> headers]

----------------------------------------------------------------------------
(* The handler *)

\* A request body that is a JSON object with the six keys.
Body(name, company, email, country, products, message) ==
    [t |-> "object",
     v |-> [name |-> name, company |-> company, email |-> email,
            country |-> country, products |-> products, message |-> message]]

Request(method, origin, body) ==
    [method |-> method, origin |-> origin, body |-> body]

NoRequest == Request("none", Undefined, Undefined)

\* const { name, ... } = req.body throws a TypeError on undefined and null.
DestructuringThrows(body) == body.t \in {"undefined", "null"}

\* One destructured property: a body that is no object (a string, a number)
\* has none of the six properties.
Field(body, key) == IF body.t = "object" THEN body.v[key] ELSE Undefined

NoLocals ==
    [validated |-> FALSE, sanitizedName |-> Undefined,
     sanitizedCompany |-> Undefined, sanitizedEmail |-> Undefined,
     sanitizedCountry |-> Undefined, sanitizedProducts |-> Undefined,
     sanitizedMessage |-> Undefined]

\* Lines 154-159: the six validators, all run before any result is checked.
Sanitized(body) ==
    [validated |-> TRUE,
     sanitizedName |-> ValidateName(Field(body, "name")),
     sanitizedCompany |-> ValidateCompany(Field(body, "company")),
     sanitizedEmail |-> ValidateEmail(Field(body, "email")),
     sanitizedCountry |-> ValidateCountry(Field(body, "country")),
     sanitizedProducts |-> ValidateProducts(Field(body, "products")),
     sanitizedMessage |-> ValidateMessage(Field(body, "message"))]

\* The checks of the validation results with company and name swapped.
ValidationErrorCompanyFirst(l) ==
    IF ~Truthy(l.sanitizedCompany) THEN CompanyError
    ELSE IF ~Truthy(l.sanitizedName) THEN NameError
    ELSE IF ~Truthy(l.sanitizedEmail) THEN EmailError
    ELSE IF ~Truthy(l.sanitizedCountry) THEN CountryError
    ELSE IF ~Truthy(l.sanitizedProducts) THEN ProductsError
    ELSE IF ~Truthy(l.sanitizedMessage) THEN MessageError
    ELSE "none"

\* Lines 162-202: the message of the first falsy result, "none" when all six
\* results are truthy.
ValidationError(l) ==
    IF ~Truthy(l.sanitizedName) THEN NameError
    ELSE IF ~Truthy(l.sanitizedCompany) THEN CompanyError
    ELSE IF ~Truthy(l.sanitizedEmail) THEN EmailError
    ELSE IF ~Truthy(l.sanitizedCountry) THEN CountryError
    ELSE IF ~Truthy(l.sanitizedProducts) THEN ProductsError
    ELSE IF ~Truthy(l.sanitizedMessage) THEN MessageError
    ELSE "none"

Comma == <<",", " ">>

Br == <<"<", "b", "r", ">">>

ProductStrings(products) == [i \in 1..Len(products.v) |-> products.v[i].v]

\* Lines 207-286: the values interpolated into the email.  html holds the
\* slots of the template, in the order of the template; the fixed markup
\* around them and the timestamp are left out.
EmailPayload(e, l) ==
    [to |-> <<e.TO_EMAIL.v>>,
     subject |-> [name |-> l.sanitizedName.v, company |-> l.sanitizedCompany.v],
     html |-> [name |-> l.sanitizedName.v,
               company |-> l.sanitizedCompany.v,
               email |-> l.sanitizedEmail.v,
               country |-> l.sanitizedCountry.v,
               productsList |-> Join(ProductStrings(l.sanitizedProducts), Comma),
               message |-> ReplaceAll(l.sanitizedMessage.v, "\n", Br)],
     reply_to |-> l.sanitizedEmail.v]

NoReply == [kind |-> "none", status |-> 0, text |-> "", json |-> FALSE]

\* What the collaborator can answer: a response with a status and a body
\* (json: whether the body parses as JSON), or a fetch that throws.
UpstreamReplies ==
    {[kind |-> "response", status |-> 200, text |-> "id 49a3999c", json |-> TRUE],
     [kind |-> "response", status |-> 200, text |-> "", json |-> FALSE],
     [kind |-> "response", status |-> 401,
      text |-> "API key is invalid", json |-> TRUE],
     [kind |-> "response", status |-> 422,
      text |-> "Invalid to field", json |-> TRUE],
     [kind |-> "response", status |-> 500, text |-> "Internal Server Error",
      json |-> FALSE],
     [kind |-> "network_error", status |-> 0, text |-> "fetch failed",
      json |-> FALSE]}

\* Response.ok
Ok(reply) == reply.status >= 200 /\ reply.status <= 299

\* A handler that refuses a request whose origin is not allowed.
RunUntilFetchRefusingOrigin(e, r) ==
    LET allowedOrigins == GetAllowedOrigins(e)
        headers == CorsHeaders(r.origin, allowedOrigins)
        l == Sanitized(r.body)
        done(st, body, h) ==
            [pc |-> "done", locals |-> NoLocals, outbox |-> <<>>,
             res |-> Response(st, body, h)]
    IN  IF ~Truthy(e.RESEND_API_KEY)
        THEN done(500, Failure(ConfigError), NoHeaders)
        ELSE IF ~Truthy(e.TO_EMAIL)
        THEN done(500, Failure(ConfigError), NoHeaders)
        ELSE IF r.method = "OPTIONS" THEN done(200, EmptyBody, headers)
        ELSE IF r.method # "POST"
        THEN done(405, MethodNotAllowedBody, headers)
        ELSE IF headers.allowOrigin.t = "undefined"
        THEN done(403, Failure("Origin not allowed"), headers)
        ELSE IF DestructuringThrows(r.body)
        THEN done(500, Failure(GenericError), headers)
        ELSE IF ValidationError(l) # "none"
        THEN [pc |-> "done", locals |-> l, outbox |-> <<>>,
              res |-> Response(400, Failure(ValidationError(l)), headers)]
        ELSE [pc |-> "await_fetch", locals |-> l,
              outbox |-> <<EmailPayload(e, l)>>,
              res |-> [NoResponse EXCEPT !.headers = headers]]

\* Lines 97-297: the handler from its entry to its first response or, when
\* every check passes, to the fetch it awaits.
RunUntilFetch(e, r) ==
    LET allowedOrigins == GetAllowedOrigins(e)
        headers == CorsHeaders(r.origin, allowedOrigins)
        l == Sanitized(r.body)
        done(st, body, h) ==
            [pc |-> "done", locals |-> NoLocals, outbox |-> <<>>,
             res |-> Response(st, body, h)]
    IN  IF ~Truthy(e.RESEND_API_KEY)
        THEN done(500, Failure(ConfigError), NoHeaders)
        ELSE IF ~Truthy(e.TO_EMAIL)
        THEN done(500, Failure(ConfigError), NoHeaders)
        ELSE IF r.method = "OPTIONS" THEN done(200, EmptyBody, headers)
        ELSE IF r.method # "POST"
        THEN done(405, MethodNotAllowedBody, headers)
        ELSE IF DestructuringThrows(r.body)
        THEN done(500, Failure(GenericError), headers)
        ELSE IF ValidationError(l) # "none"
        THEN [pc |-> "done", locals |-> l, outbox |-> <<>>,
              res |-> Response(400, Failure(ValidationError(l)), headers)]
        ELSE [pc |-> "await_fetch", locals |-> l,
              outbox |-> <<EmailPayload(e, l)>>,
              res |-> [NoResponse EXCEPT !.headers = headers]]

\* The runtime invokes the handler with request r; the handler runs to its
\* response or suspends at the fetch.
Invoke(r) ==
    /\ pc = "idle"
    /\ req' = r
    /\ \E after \in {RunUntilFetch(env, r)} :
           /\ pc' = after.pc
           /\ locals' = after.locals
           /\ outbox' = after.outbox
           /\ res' = after.res
    /\ UNCHANGED <<env, upstream>>

\* A reply handling that hands the text of the failure to the client.
AfterReplyLeakingText(reply) ==
    IF reply.kind = "network_error" THEN Failure(reply.text)
    ELSE IF ~Ok(reply) THEN Failure(reply.text)
    ELSE IF ~reply.json THEN Failure(GenericError)
    ELSE Json({"success", "message"}, TRUE, "", SuccessMessage)

\* Lines 302-331: the body of the response once the fetch has settled.  A
\* fetch that throws, a status that is not ok (the handler throws) and a body
\* of an ok response that does not parse (resendResponse.json() throws) all
\* end in the catch clause.
AfterReply(reply) ==
    IF reply.kind = "network_error" THEN Failure(GenericError)
    ELSE IF ~Ok(reply) THEN Failure(GenericError)
    ELSE IF ~reply.json THEN Failure(GenericError)
    ELSE Json({"success", "message"}, TRUE, "", SuccessMessage)

\* A handler whose reading of the reply lies outside the try block: a reply
\* that does not parse ends the handler without a response.
FetchSettlesUncaught(reply) ==
    /\ pc = "await_fetch"
    /\ upstream' = reply
    /\ LET body == AfterReply(reply)
       IN  res' = IF reply.kind = "response" /\ Ok(reply) /\ ~reply.json
                  THEN res
                  ELSE [res EXCEPT !.count = @ + 1,
                                   !.status = IF body.success THEN 200 ELSE 500,
                                   !.body = body]
    /\ pc' = "done"
    /\ UNCHANGED <<env, req, locals, outbox>>

\* The awaited fetch settles with reply, and the handler responds.
FetchSettles(reply) ==
    /\ pc = "await_fetch"
    /\ upstream' = reply
    /\ LET body == AfterReply(reply)
       IN  res' = [res EXCEPT !.count = @ + 1,
                              !.status = IF body.success THEN 200 ELSE 500,
                              !.body = body]
    /\ pc' = "done"
    /\ UNCHANGED <<env, req, locals, outbox>>

----------------------------------------------------------------------------
(* Inputs *)

\* Longest whitespace run put before and after a value.
MaxPad == 1

\* Longest free text over TextAlphabet.
MaxText == 2

\* Longest products array.
MaxProducts == 2

\* Longest ALLOWED_ORIGINS value.
MaxAllowList == 4

\* Longest Origin header.
MaxOrigin == 2

SeqsUpTo(alphabet, n) == UNION {[1..k -> alphabet] : k \in 0..n}

ApiKey == Str(<<"r", "e", "_", "k">>)

ToEmail == Str(<<"s", "@", "x", ".", "y">>)

Env(key, to, origins) ==
    [RESEND_API_KEY |-> key, TO_EMAIL |-> to, ALLOWED_ORIGINS |-> origins]

Jane == Str(<<"J", "a", "n", "e">>)

Acme == Str(<<"A", "c", "m", "e">>)

JaneEmail == Str(<<"j", "@", "a", ".", "c", "o">>)

Usa == Str(<<"U", "S", "A">>)

Quote == Str(<<"P", "l", "e", "a", "s", "e", " ", "s", "e", "n", "d">>)

Unknown == Str(<<"X">>)

ValidBody == Body(Jane, Acme, JaneEmail, Usa, Arr(<<Str(CBB60)>>), Quote)

WithField(body, key, value) == [body EXCEPT !.v[key] = value]

Methods == {"POST", "OPTIONS", "GET"}

(* The handler under every configuration, method and kind of body. *)

Envs ==
    {Env(k, t, o) : k \in {Undefined, ApiKey}, t \in {Undefined, ToEmail},
                    o \in {Undefined, Str(<<"a">>)}}

Origins == {Undefined, Str(<<"a">>), Str(<<"b">>)}

Names == {Undefined, Str(<<" ">>), Str(<<" ", "<", "b", ">", "&">>)}

Companies == {Num7, Str(<<"A", "/", "B", "\"">>)}

Emails ==
    {Undefined, Str(<<"a", ".", "b", ".", "c">>),
     Str(<<" ", "o", "'", "x", "@", "b", ".", "c", " ">>)}

Countries == {Str(<<>>), Str(<<"U", "S">>)}

Products ==
    {Str(CBB60), Arr(<<>>), Arr(<<Unknown>>),
     Arr(<<Unknown, Str(CBB61), Num7, Str(CBB60)>>)}

Messages ==
    {Str(<<"s", "h", "o", "r", "t">>),
     Str(<<"a", "\n", "b", " ", "<", "c", ">", " ", "d", "/", "e">>)}

Bodies ==
    {Undefined, Null, Str(<<"x">>)}
    \cup {Body(n, c, e, k, p, m) : n \in Names, c \in Companies, e \in Emails,
                                   k \in Countries, p \in Products, m \in Messages}

Requests == {Request(m, o, b) : m \in Methods, o \in Origins, b \in Bodies}

(* One field of a valid submission varied at a time. *)

Pad(n) == Rep(" ", n)

Lengths(min, max) == {min - 1, min, max, max + 1}

Padded(cores) ==
    {Str(Pad(l) \o c \o Pad(t)) : l \in 0..MaxPad, t \in 0..MaxPad, c \in cores}

\* An address of n characters, well-formed when n >= 5.
AddressOfLength(n) ==
    IF n < EmailMin THEN Rep("c", n)
    ELSE <<"a", "@", "b", ".">> \o Rep("c", n - 4)

TextAlphabet == {"a", "&", "<", ">", "\"", "'", "/", " ", "\n"}

Texts == SeqsUpTo(TextAlphabet, MaxText)

ProductEntries == {Str(CBB60), Str(CBB61), Unknown, Num7}

FieldValues(key) ==
    CASE key = "name" ->
            Padded({Rep("a", n) : n \in Lengths(NameMin, NameMax)})
            \cup {Str(s) : s \in Texts}
      [] key = "company" ->
            Padded({Rep("a", n) : n \in Lengths(CompanyMin, CompanyMax)})
            \cup {Str(s) : s \in Texts}
      [] key = "email" ->
            Padded({AddressOfLength(n) : n \in Lengths(EmailMin, EmailMax)})
            \cup {Str(s \o <<"@", "b", ".", "c">>) : s \in Texts}
      [] key = "country" ->
            Padded({Rep("a", n) : n \in Lengths(CountryMin, CountryMax)})
            \cup {Str(s) : s \in Texts}
      [] key = "products" ->
            {Undefined, Str(CBB60)}
            \cup {Arr(a) : a \in SeqsUpTo(ProductEntries, MaxProducts)}
      [] key = "message" ->
            Padded({Rep("a", n) : n \in Lengths(MessageMin, MessageMax)})
            \cup {Str(Rep("m", MessageMin) \o s) : s \in Texts}

FieldKeys == {"name", "company", "email", "country", "products", "message"}

FieldRequests ==
    UNION {{Request("POST", Undefined, WithField(ValidBody, key, v)) :
                v \in FieldValues(key)} : key \in FieldKeys}

FieldEnv == Env(ApiKey, ToEmail, Undefined)

(* Every short allow-list against every short origin. *)

AllowListAlphabet == {"a", "b", "*", ",", " "}

OriginAlphabet == {"a", "b"}

CorsEnvs ==
    {Env(ApiKey, ToEmail, o) :
        o \in {Undefined} \cup {Str(s) : s \in SeqsUpTo(AllowListAlphabet, MaxAllowList)}}

CorsOrigins == {Undefined} \cup {Str(s) : s \in SeqsUpTo(OriginAlphabet, MaxOrigin)}

CorsRequests ==
    {Request(m, o, ValidBody) : m \in Methods, o \in CorsOrigins}

----------------------------------------------------------------------------
(* Specifications *)

Idle ==
    /\ req = NoRequest
    /\ pc = "idle"
    /\ locals = NoLocals
    /\ outbox = <<>>
    /\ upstream = NoReply
    /\ res = NoResponse

\* The process has read its configuration and no request has arrived.
Init == env \in Envs /\ Idle

Next ==
    \/ \E r \in Requests : Invoke(r)
    \/ \E reply \in UpstreamReplies : FetchSettles(reply)

Spec == Init /\ [][Next]_vars

\* The collaborator eventually returns or throws: an awaited fetch settles.
SpecLive ==
    /\ Init
    /\ [][Next]_vars
    /\ WF_vars(\E reply \in UpstreamReplies : FetchSettles(reply))

InitFields == env = FieldEnv /\ Idle

NextFields ==
    \/ \E r \in FieldRequests : Invoke(r)
    \/ \E reply \in UpstreamReplies : FetchSettles(reply)

SpecFields == InitFields /\ [][NextFields]_vars

InitCors == env \in CorsEnvs /\ Idle

NextCors ==
    \/ \E r \in CorsRequests : Invoke(r)
    \/ \E reply \in UpstreamReplies : FetchSettles(reply)

SpecCors == InitCors /\ [][NextCors]_vars

----------------------------------------------------------------------------
(* Claims about the validators *)

\* The text of field key as submitted.
Submitted(key) == Field(req.body, key)

TrimmedLengthWithin(x, min, max) ==
    x.t = "string" /\ Len(Trim(x.v)) >= min /\ Len(Trim(x.v)) <= max

\* A value is accepted when the validator's result is truthy: the handler
\* rejects null and the empty string alike.
Accepts(result) == Truthy(result)

\* C1: each text validator accepts a string exactly when the length of the
\* trimmed string lies within the bounds of the field, both bounds included
\* (and, for email, the trimmed string has the form of an address).
C1_LengthOfTrimmedValue ==
    locals.validated =>
        /\ Submitted("name").t = "string" =>
            (Accepts(locals.sanitizedName)
                <=> TrimmedLengthWithin(Submitted("name"), 1, 100))
        /\ Submitted("company").t = "string" =>
            (Accepts(locals.sanitizedCompany)
                <=> TrimmedLengthWithin(Submitted("company"), 1, 200))
        /\ Submitted("email").t = "string" =>
            (Accepts(locals.sanitizedEmail)
                <=> /\ TrimmedLengthWithin(Submitted("email"), 5, 255)
                    /\ IsValidEmail(Trim(Submitted("email").v)))
        /\ Submitted("country").t = "string" =>
            (Accepts(locals.sanitizedCountry)
                <=> TrimmedLengthWithin(Submitted("country"), 1, 100))
        /\ Submitted("message").t = "string" =>
            (Accepts(locals.sanitizedMessage)
                <=> TrimmedLengthWithin(Submitted("message"), 10, 5000))

\* The entity of one character, or the character itself.
Entity(c) ==
    CASE c = "&" -> AmpEntity
      [] c = "<" -> LtEntity
      [] c = ">" -> GtEntity
      [] c = "\"" -> QuotEntity
      [] c = "'" -> AposEntity
      [] c = "/" -> SlashEntity
      [] OTHER -> <<c>>

\* The escaped form of a text: every character replaced by its entity.
RECURSIVE EscapedForm(_)
EscapedForm(s) ==
    IF Len(s) = 0 THEN <<>>
    ELSE IF Len(s) = 1 THEN Entity(s[1])
    ELSE LET h == Len(s) \div 2
         IN  EscapedForm(SubSeq(s, 1, h)) \o EscapedForm(SubSeq(s, h + 1, Len(s)))

\* The escaped form with every line break turned into a <br> tag.
RECURSIVE EscapedFormWithBreaks(_)
EscapedFormWithBreaks(s) ==
    IF Len(s) = 0 THEN <<>>
    ELSE IF Len(s) = 1 THEN (IF s[1] = "\n" THEN Br ELSE Entity(s[1]))
    ELSE LET h == Len(s) \div 2
         IN  EscapedFormWithBreaks(SubSeq(s, 1, h))
                 \o EscapedFormWithBreaks(SubSeq(s, h + 1, Len(s)))

RawCharacters == {"<", ">", "\"", "'", "/"}

Entities ==
    {AmpEntity, LtEntity, GtEntity, QuotEntity, AposEntity, SlashEntity}

NoRawCharacter(s) == \A i \in 1..Len(s) : s[i] \notin RawCharacters

EveryAmpersandStartsAnEntity(s) ==
    \A i \in 1..Len(s) :
        s[i] = "&" =>
            \E e \in Entities :
                i + Len(e) - 1 <= Len(s) /\ SubSeq(s, i, i + Len(e) - 1) = e

\* value is the escaped form of the trimmed text submitted for field key.
EscapedTrimmed(value, key) ==
    /\ value = EscapedForm(Trim(Submitted(key).v))
    /\ NoRawCharacter(value)
    /\ EveryAmpersandStartsAnEntity(value)

\* The values of the email other than the message of the html body.
EscapedOutsideMessage(mail) ==
    /\ EscapedTrimmed(mail.subject.name, "name")
    /\ EscapedTrimmed(mail.subject.company, "company")
    /\ EscapedTrimmed(mail.html.name, "name")
    /\ EscapedTrimmed(mail.html.company, "company")
    /\ EscapedTrimmed(mail.html.email, "email")
    /\ EscapedTrimmed(mail.html.country, "country")
    /\ EscapedTrimmed(mail.reply_to, "email")

\* C4 as stated: every text value placed in the subject, the html body and
\* the reply_to of an outbound email is the escaped form of the trimmed
\* input, without a raw < > " ' or / and with every & starting an entity.
C4_EveryMailValueEscaped ==
    \A i \in 1..Len(outbox) :
        /\ EscapedOutsideMessage(outbox[i])
        /\ EscapedTrimmed(outbox[i].html.message, "message")

\* C4 as amended: the same for every value but the message of the html
\* body, which is the escaped form of the trimmed message with each line
\* break replaced by a <br> tag; the sanitized message itself is escaped.
C4_MailValuesEscapedUpToBreaks ==
    \A i \in 1..Len(outbox) :
        /\ EscapedOutsideMessage(outbox[i])
        /\ EscapedTrimmed(locals.sanitizedMessage.v, "message")
        /\ outbox[i].html.message
               = EscapedFormWithBreaks(Trim(Submitted("message").v))

\* An email was sent for a message with a line break and markup inside.
C4_Witness ==
    /\ Len(outbox) = 1
    /\ Submitted("message") = Str(Rep("m", MessageMin) \o <<"\n", "<">>)
    /\ outbox[1].html.message = Rep("m", MessageMin) \o Br \o LtEntity

IsWhitelisted(p) == p.t = "string" /\ p.v \in {CBB60, CBB61}

\* The whitelisted entries of the submitted products, in input order.
Whitelisted ==
    IF Submitted("products").t = "array"
    THEN SelectSeq(Submitted("products").v, IsWhitelisted)
    ELSE <<>>

\* C6: a products value that is no collection, is empty or holds no
\* whitelisted entry is rejected, and the handler answers each of them with
\* the same 400 and message and sends nothing; any other collection is
\* accepted as its whitelisted entries in input order.
C6_ProductsFiltered ==
    locals.validated =>
        IF Whitelisted = <<>>
        THEN /\ locals.sanitizedProducts.t = "null"
             /\ outbox = <<>>
             /\ (/\ Truthy(locals.sanitizedName)
                 /\ Truthy(locals.sanitizedCompany)
                 /\ Truthy(locals.sanitizedEmail)
                 /\ Truthy(locals.sanitizedCountry))
                => /\ res.count = 1
                   /\ res.status = 400
                   /\ res.body = Failure(ProductsError)
        ELSE /\ locals.sanitizedProducts.t = "array"
             /\ locals.sanitizedProducts.v = Whitelisted

\* An unknown code was dropped and the whitelisted one sent on.
C6_Witness ==
    /\ Submitted("products") = Arr(<<Unknown, Str(CBB61)>>)
    /\ locals.sanitizedProducts = Arr(<<Str(CBB61)>>)
    /\ Len(outbox) = 1
    /\ outbox[1].html.productsList = CBB61

----------------------------------------------------------------------------
(* Claims about the handler *)

Handled == pc # "idle"

ConfigurationPresent == Truthy(env.RESEND_API_KEY) /\ Truthy(env.TO_EMAIL)

\* C2: a preflight request is answered 200 without a body whatever the
\* configuration, the origin and the body are, and nothing is validated or
\* sent for it.
C2_PreflightAnswered200 ==
    (Handled /\ req.method = "OPTIONS") =>
        /\ res.count = 1
        /\ res.status = 200
        /\ res.body.kind = "empty"
        /\ ~locals.validated
        /\ outbox = <<>>

\* C3: a request that is neither POST nor OPTIONS is answered 405 with the
\* method-not-allowed body whatever the configuration and the body are, and
\* nothing is validated or sent for it.
C3_OtherMethodsAnswered405 ==
    (Handled /\ req.method \notin {"POST", "OPTIONS"}) =>
        /\ res.count = 1
        /\ res.status = 405
        /\ res.body.kind = "json"
        /\ res.body.error = MethodNotAllowed
        /\ ~locals.validated
        /\ outbox = <<>>

FieldOrder == <<"name", "company", "email", "country", "products", "message">>

FieldError ==
    [name |-> NameError, company |-> CompanyError, email |-> EmailError,
     country |-> CountryError, products |-> ProductsError,
     message |-> MessageError]

\* What the validator of field key returns for the submitted value.
Validated(key) ==
    CASE key = "name" -> ValidateName(Submitted(key))
      [] key = "company" -> ValidateCompany(Submitted(key))
      [] key = "email" -> ValidateEmail(Submitted(key))
      [] key = "country" -> ValidateCountry(Submitted(key))
      [] key = "products" -> ValidateProducts(Submitted(key))
      [] key = "message" -> ValidateMessage(Submitted(key))

\* The positions, in the fixed order, of the fields that fail validation.
Failing == {i \in 1..6 : ~Truthy(Validated(FieldOrder[i]))}

FirstFailing == CHOOSE i \in Failing : \A j \in Failing : i <= j

\* The body is one the six properties can be read from.
BodyReadable == ~DestructuringThrows(req.body)

\* C5: a POST with the configuration present and a failing field is answered
\* 400 with the one message of the first failing field in the order name,
\* company, email, country, products, message, and nothing is sent.
C5_FirstFailingFieldReported ==
    (/\ Handled
     /\ req.method = "POST"
     /\ ConfigurationPresent
     /\ BodyReadable
     /\ Failing # {}) =>
        /\ pc = "done"
        /\ res.count = 1
        /\ res.status = 400
        /\ res.body = Failure(FieldError[FieldOrder[FirstFailing]])
        /\ outbox = <<>>

\* Company and message both fail, and the company is the one reported.
C5_Witness ==
    /\ Handled
    /\ req.method = "POST"
    /\ ConfigurationPresent
    /\ BodyReadable
    /\ Failing = {2, 6}
    /\ res.status = 400
    /\ res.body.error = CompanyError

\* The collaborator answered with a status that is not a success, or the
\* call to it threw.
UpstreamFailed ==
    \/ upstream.kind = "network_error"
    \/ upstream.kind = "response" /\ ~Ok(upstream)

\* C7: when the collaborator fails the handler answers 500 with success
\* false and the fixed generic message, the same body for every status and
\* error text of the collaborator, none of which reaches the client.
C7_UpstreamFailureGeneric ==
    (pc = "done" /\ UpstreamFailed) =>
        /\ res.count = 1
        /\ res.status = 500
        /\ res.body = Failure(GenericError)
        /\ res.body.error # upstream.text
        /\ res.body.message # upstream.text

\* The collaborator refused the email with its own error text.
C7_Witness ==
    /\ pc = "done"
    /\ upstream.kind = "response"
    /\ upstream.status = 422
    /\ upstream.text = "Invalid to field"
    /\ res.status = 500

\* The collaborator reports success: an ok status and the JSON reply with
\* the identifier of the sent message.
UpstreamSucceeded == upstream.kind = "response" /\ Ok(upstream) /\ upstream.json

\* C8: a POST with the configuration present and six valid fields, whatever
\* its origin, makes exactly one outbound send; no response is given while
\* the reply is awaited; on a success of the collaborator the response is 200
\* with success true.
C8_ValidSubmissionSentOnce ==
    (/\ Handled
     /\ req.method = "POST"
     /\ ConfigurationPresent
     /\ BodyReadable
     /\ Failing = {}) =>
        /\ Len(outbox) = 1
        /\ pc = "await_fetch" => (res.count = 0 /\ upstream = NoReply)
        /\ pc = "done" => (res.count = 1 /\ upstream # NoReply)
        /\ (pc = "done" /\ UpstreamSucceeded) =>
            /\ res.status = 200
            /\ res.body.kind = "json"
            /\ "success" \in res.body.keys
            /\ res.body.success

\* A valid submission from an origin absent from the allow-list was sent and
\* answered 200, without an Access-Control-Allow-Origin header.
C8_Witness ==
    /\ pc = "done"
    /\ env.ALLOWED_ORIGINS = Str(<<"a">>)
    /\ req.origin = Str(<<"b">>)
    /\ res.headers.allowOrigin.t = "undefined"
    /\ Len(outbox) = 1
    /\ UpstreamSucceeded
    /\ res.status = 200

\* C9: every response with a body is a JSON object with a boolean success,
\* true only on status 200; every 400, 405 and 500 response has success
\* false and an error string.
C9_BodiesCarrySuccess ==
    (res.count = 1 /\ res.body.kind = "json") =>
        /\ "success" \in res.body.keys
        /\ res.body.success => res.status = 200
        /\ res.status \in {400, 405, 500} =>
            (~res.body.success /\ "error" \in res.body.keys)

\* An Origin header was sent (an empty one counts as none).
OriginSent == req.origin.t = "string" /\ Len(req.origin.v) > 0

\* The origin equals an entry, or starts with the prefix of an entry that
\* ends in *.
MatchesEntry(origin, list) ==
    \E i \in 1..Len(list) :
        \/ list[i] = origin
        \/ /\ Len(list[i]) >= 1
           /\ list[i][Len(list[i])] = "*"
           /\ Len(origin) >= Len(list[i]) - 1
           /\ \A k \in 1..(Len(list[i]) - 1) : origin[k] = list[i][k]

\* C10: past the configuration gate, with an empty allow-list (unset or
\* empty ALLOWED_ORIGINS) Access-Control-Allow-Origin is the origin sent, or
\* * when none is; with a non-empty allow-list it echoes an origin that
\* matches an entry and is omitted otherwise.
C10_AllowOriginHeader ==
    (Handled /\ ConfigurationPresent) =>
        LET list == GetAllowedOrigins(env)
            header == res.headers.allowOrigin
        IN  /\ Len(list) = 0 <=>
                \/ env.ALLOWED_ORIGINS.t = "undefined"
                \/ env.ALLOWED_ORIGINS = Str(<<>>)
            /\ IF Len(list) = 0
               THEN IF OriginSent THEN header = Str(req.origin.v)
                    ELSE header = Str(Star)
               ELSE IF OriginSent /\ MatchesEntry(req.origin.v, list)
                    THEN header = Str(req.origin.v)
                    ELSE header.t = "undefined"

\* The origin ab is echoed for the allow-list b,a* whose second entry is a
\* wildcard prefix.
C10_Witness ==
    /\ Handled
    /\ env.ALLOWED_ORIGINS = Str(<<"b", ",", "a", "*">>)
    /\ req.origin = Str(<<"a", "b">>)
    /\ res.headers.allowOrigin = Str(<<"a", "b">>)

\* C11: every response, whatever its status, the 500 of a missing
\* configuration included, carries Access-Control-Allow-Credentials: true
\* and the fixed Access-Control-Allow-Methods and -Headers lists.
C11_CorsHeadersOnEveryResponse ==
    res.count = 1 =>
        /\ res.headers.allowCredentials = "true"
        /\ res.headers.allowMethods = AllowMethods
        /\ res.headers.allowHeaders = AllowHeaders

\* The request came without a body the six properties can be read from.
BodyAbsent == req.body.t \in {"undefined", "null"}

\* An ok status whose body does not parse as JSON.
UpstreamUnparseable ==
    upstream.kind = "response" /\ Ok(upstream) /\ ~upstream.json

GenericFailure == res.status = 500 /\ res.body = Failure(GenericError)

\* What holds of the response in every state: at most one response, a
\* handler that has ended has responded, the status is 200, 400, 405 or 500,
\* and a fault that is no validation or method error is a generic 500.
ResponseDiscipline ==
    /\ res.count \in {0, 1}
    /\ pc = "done" => res.count = 1
    /\ res.count = 1 => (pc = "done" /\ res.status \in {200, 400, 405, 500})
    /\ (Handled /\ ~ConfigurationPresent) =>
        (res.status = 500 /\ res.body = Failure(ConfigError))
    /\ (Handled /\ ConfigurationPresent /\ req.method = "POST" /\ BodyAbsent) =>
        GenericFailure
    /\ (pc = "done" /\ (UpstreamFailed \/ UpstreamUnparseable)) =>
        GenericFailure

\* C12: for every request, configuration and behaviour of the collaborator
\* that returns or throws, the handler eventually gives exactly one
\* response, with status 200, 400, 405 or 500; no fault ends it without a
\* response, and a fault that is no validation or method error is answered
\* with a generic 500.
C12_ExactlyOneResponse ==
    /\ []ResponseDiscipline
    /\ [][res.count = 1 => res' = res]_vars
    /\ Handled ~> (pc = "done" /\ res.count = 1)

\* The collaborator answered 200 with a body that does not parse, and the
\* handler answered the generic 500.
C12_Witness ==
    /\ pc = "done"
    /\ UpstreamUnparseable
    /\ res.count = 1
    /\ GenericFailure

\* C13: the reply_to of every outbound email is the submitted email address
\* with the surrounding whitespace trimmed, also for an address that
\* contains &, ' or /.
C13_ReplyToIsSubmittedAddress ==
    \A i \in 1..Len(outbox) :
        outbox[i].reply_to = Trim(Submitted("email").v)

====
